---- MODULE Spec2Model ----
(***************************************************************************)
(* The A-Frame 'navmesh' component (Ground Follower): update() resolves    *)
(* the walkable and excluded geometry, tick() constrains the entity to the *)
(* navmesh by an 8-direction downward raycast scan, a gravity integrator   *)
(* and a commit / rollback of the entity position.                         *)
(*                                                                         *)
(* Lengths are integers in units of 0.001 scene units and times in ms, so  *)
(* that 0.01 is 10, 0.5 is 500 and gravity * delta * 0.001 is -delta.      *)
(* Products with a sine, a cosine or a distance factor are rounded to the  *)
(* nearest unit.                                                           *)
(***************************************************************************)
EXTENDS Integers, Sequences, FiniteSets, TLC

(***************************************************************************)
(* Bounds of the exploration.                                              *)
(***************************************************************************)
MaxSteps == 6

MaxUpdates == 2

(***************************************************************************)
(* Constants of the tick closure and of the schema.                        *)
(***************************************************************************)
Milli == 1000

gravity == -1

maxYVelocity == 500

Epsilon == 10

DefaultFall == 500

DefaultHeight == 1600

Null == <<>>

Instances == {1, 2}

SixtyBeforeThirty ==
  << <<0, 1000>>, <<0, 500>>, <<60, 200>>, <<-60, 200>>,
     <<30, 400>>, <<-30, 400>>, <<80, 60>>, <<-80, 60>> >>

scanPattern ==
  << <<0, 1000>>, <<0, 500>>, <<30, 400>>, <<-30, 400>>,
     <<60, 200>>, <<-60, 200>>, <<80, 60>>, <<-80, 60>> >>

(***************************************************************************)
(* THREE.Vector3 arithmetic.                                               *)
(***************************************************************************)
Max(a, b) == IF a >= b THEN a ELSE b

RoundDiv(n, d) == (2 * n + d) \div (2 * d)

add(a, b) == <<a[1] + b[1], a[2] + b[2], a[3] + b[3]>>

sub(a, b) == <<a[1] - b[1], a[2] - b[2], a[3] - b[3]>>

distanceToSquared(a, b) ==
  LET d == sub(a, b) IN d[1] * d[1] + d[2] * d[2] + d[3] * d[3]

cosMilli(angle) ==
  CASE angle = 0 -> 1000
    [] angle \in {30, -30} -> 866
    [] angle \in {60, -60} -> 500
    [] angle \in {80, -80} -> 174

sinMilli(angle) ==
  CASE angle = 0 -> 0
    [] angle = 30 -> 500
    [] angle = -30 -> -500
    [] angle = 60 -> 866
    [] angle = -60 -> -866
    [] angle = 80 -> 985
    [] angle = -80 -> -985

\* v.applyAxisAngle(down, angle): a rotation about the axis (0,-1,0)
applyAxisAngle(v, angle) ==
  << RoundDiv(v[1] * cosMilli(angle) - v[3] * sinMilli(angle), Milli),
     v[2],
     RoundDiv(v[1] * sinMilli(angle) + v[3] * cosMilli(angle), Milli) >>

\* v.multiplyScalar(distance), the distance given in thousandths
multiplyScalar(v, distance) ==
  << RoundDiv(v[1] * distance, Milli), RoundDiv(v[2] * distance, Milli),
     RoundDiv(v[3] * distance, Milli) >>

(***************************************************************************)
(* The scene: horizontal one-sided surfaces owned by entities, the         *)
(* selectors that match them, and the transforms of the rig.               *)
(***************************************************************************)
Scene ==
  { [el |-> "floor", x1 |-> -500, x2 |->  500, z1 |-> -500, z2 |->  500, y |-> -1600],
    [el |-> "ledge", x1 |-> -500, x2 |->  500, z1 |-> -500, z2 |-> -400, y |-> -1200],
    [el |-> "box",   x1 |->  200, x2 |->  500, z1 |->  -50, z2 |->   50, y |-> -1300],
    [el |-> "lava",  x1 |-> -500, x2 |-> -400, z1 |-> -500, z2 |->  500, y |-> -1900] }

querySelectorAll(selector) ==
  CASE selector = ".ground" -> <<"floor", "ledge">>
    [] selector = ".obstacle" -> <<"box", "lava">>
    [] OTHER -> <<>>

\* this.el.querySelector(selector): a descendant of the entity, or null.
querySelector(selector) ==
  IF selector = "#head" THEN "head" ELSE "null"

\* world position of the entity's parent (a pure translation)
ParentWorld == <<100, 200, 0>>

\* local position of the child entity "head"
HeadLocal == <<40, 1500, 0>>

worldToLocal(parentWorld, v) == sub(v, parentWorld)

localToWorld(parentWorld, v) == add(v, parentWorld)

(***************************************************************************)
(* State.  data, lastPosition, excludes, objects, xzOrigin and position    *)
(* are fields of one component instance (this.*, this.el.object3D);        *)
(* yVel and firstTry are the variables of the closure around tick, which   *)
(* the component definition creates once.                                  *)
(***************************************************************************)
VARIABLES data, lastPosition, excludes, objects, xzOrigin, position,
          yVel, firstTry, warned, last, resume, steps, updates, moved

vars == <<data, lastPosition, excludes, objects, xzOrigin, position,
          yVel, firstTry, warned, last, resume, steps, updates, moved>>

(***************************************************************************)
(* update(): runs when the component is attached and whenever a schema     *)
(* property changes.  Array.from(...) is never null, so the branch that    *)
(* warns and empties this.objects is never taken.                          *)
(***************************************************************************)
KeepLastPosition(old) == old

\* this.lastPosition = null
updateLastPosition(old) == Null

\* els === null, for els = Array.from(...): an array, empty or not, is not null
isNull(els) == FALSE

updateWithoutExcludes(d) ==
  LET excl == IF d.exclude # "" THEN querySelectorAll(d.exclude) ELSE <<>>
      els == querySelectorAll(d.navmesh)
  IN [ excludes |-> excl,
       warned |-> isNull(els),
       objects |-> els,
       xzOrigin |-> IF d.xzOrigin # "" THEN querySelector(d.xzOrigin) ELSE "el" ]

\* warned: whether console.warn was called
update(d) ==
  LET excl == IF d.exclude # "" THEN querySelectorAll(d.exclude) ELSE <<>>
      els == querySelectorAll(d.navmesh)
  IN [ excludes |-> excl,
       warned |-> isNull(els),
       objects |-> IF isNull(els) THEN <<>> ELSE els \o excl,
       xzOrigin |-> IF d.xzOrigin # "" THEN querySelector(d.xzOrigin) ELSE "el" ]

(***************************************************************************)
(* Ray Resolver: raycaster.set(origin, down), raycaster.far,               *)
(* intersectObjects(objects, true, results): the hits sorted by distance.  *)
(***************************************************************************)
inRangeUnbounded(dist, fall) == dist >= 0

inRange(dist, fall) ==
  dist >= 0 /\ (fall > 0 => dist <= fall + maxYVelocity)

hits(origin, fall, objs) ==
  { h \in [n : 1..Len(objs), s : Scene] :
      /\ h.s.el = objs[h.n]
      /\ h.s.x1 <= origin[1] /\ origin[1] <= h.s.x2
      /\ h.s.z1 <= origin[3] /\ origin[3] <= h.s.z2
      /\ inRange(origin[2] - h.s.y, fall) }

nearer(a, b) == a.s.y > b.s.y \/ (a.s.y = b.s.y /\ a.n <= b.n)

RECURSIVE sortByDistance(_, _)
sortByDistance(H, origin) ==
  IF H = {} THEN <<>>
  ELSE LET h == CHOOSE a \in H : \A b \in H : nearer(a, b)
       IN << [ object |-> h.s.el,
               point |-> <<origin[1], h.s.y, origin[3]>>,
               distance |-> origin[2] - h.s.y ] >>
          \o sortByDistance(H \ {h}, origin)

intersectObjects(origin, fall, objs) ==
  sortByDistance(hits(origin, fall, objs), origin)

(***************************************************************************)
(* Scan Planner: the candidate of one table entry and the origin of its    *)
(* ray.                                                                    *)
(***************************************************************************)
scanCandidate(entry, nextPosition, lp) ==
  add(multiplyScalar(applyAxisAngle(sub(nextPosition, lp), entry[1]), entry[2]), lp)

rayOrigin(cand, height) ==
  <<cand[1], cand[2] + maxYVelocity - height, cand[3]>>

castRay(i, entry, nextPosition, lp) ==
  intersectObjects(rayOrigin(scanCandidate(entry, nextPosition, lp), data[i].height),
                   data[i].fall, objects[i])

(***************************************************************************)
(* Obstacle Filter.                                                        *)
(***************************************************************************)
includes(seq, e) == \E n \in 1..Len(seq) : seq[n] = e

NeverExcluded(results, excl) == FALSE

nearestExcluded(results, excl) ==
  Len(results) > 0 /\ includes(excl, results[1].object)

hitsExcluded(results, excl) ==
  \E n \in 1..Len(results) : includes(excl, results[n].object)

\* what one candidate's ray found: nothing, an excluded entity nearest, an
\* excluded entity behind a walkable one, or only walkable entities
kindOf(results, excl) ==
  IF Len(results) = 0 THEN "none"
  ELSE IF includes(excl, results[1].object) THEN "excluded"
  ELSE IF hitsExcluded(results, excl) THEN "shadowed"
  ELSE "valid"

RECURSIVE scanWithoutBreak(_, _, _, _)
scanWithoutBreak(i, k, nextPosition, lp) ==
  IF k > Len(scanPattern)
  THEN [didHit |-> FALSE, index |-> 0, point |-> Null, kinds |-> <<>>]
  ELSE LET results == castRay(i, scanPattern[k], nextPosition, lp)
           rest == scanWithoutBreak(i, k + 1, nextPosition, lp)
       IN IF Len(results) > 0 /\ ~hitsExcluded(results, excludes[i])
          THEN [ didHit |-> TRUE, index |-> k, point |-> results[1].point,
                 kinds |-> <<kindOf(results, excludes[i])>> \o rest.kinds ]
          ELSE [rest EXCEPT !.kinds = <<kindOf(results, excludes[i])>> \o @]

RECURSIVE scanPatternLoop(_, _, _, _)
scanPatternLoop(i, k, nextPosition, lp) ==
  IF k > Len(scanPattern)
  THEN [didHit |-> FALSE, index |-> 0, point |-> Null, kinds |-> <<>>]
  ELSE LET results == castRay(i, scanPattern[k], nextPosition, lp)
       IN IF Len(results) > 0 /\ ~hitsExcluded(results, excludes[i])
          THEN [ didHit |-> TRUE, index |-> k, point |-> results[1].point,
                 kinds |-> <<kindOf(results, excludes[i])>> ]
          ELSE LET rest == scanPatternLoop(i, k + 1, nextPosition, lp)
               IN [rest EXCEPT !.kinds = <<kindOf(results, excludes[i])>> \o @]

(***************************************************************************)
(* tick(time, delta), in the order of its statements.                      *)
(***************************************************************************)
\* hasEverLanded as the next tick of instance i will use it: firstTry is
\* set again by the tick that finds lastPosition null
hasEverLanded(i) == lastPosition[i] # Null /\ ~firstTry

NeverSkip(enabled) == FALSE

skipTick(enabled) == enabled = FALSE

\* this.xzOrigin.object3D.getWorldPosition(v), less the origin's local
\* height when data.xzOrigin is set
originLocal(i) == IF xzOrigin[i] = "el" THEN position[i] ELSE HeadLocal

originParentWorld(i) ==
  IF xzOrigin[i] = "el" THEN ParentWorld
  ELSE localToWorld(ParentWorld, position[i])

samplePosition(i) ==
  LET w == localToWorld(originParentWorld(i), originLocal(i))
  IN IF data[i].xzOrigin # "" THEN <<w[1], w[2] - originLocal(i)[2], w[3]>> ELSE w

ZeroLastPosition(old, sampled) == IF old = Null THEN <<0, 0, 0>> ELSE old

\* the lastPosition the tick goes on with: a null one is replaced by the
\* sampled position of the origin
initLastPosition(old, sampled) == IF old = Null THEN sampled ELSE old

StillOnlyWhenEqual(nextPosition, lp) == nextPosition = lp

isStill(nextPosition, lp) ==
  distanceToSquared(nextPosition, lp) <= Epsilon * Epsilon

integrateKeepVelocity(y1, hitY, v, delta) ==
  IF y1 - (hitY - v * 2) > Epsilon
  THEN LET v2 == v + Max(gravity * delta, -maxYVelocity)
       IN [yVel |-> v2, y |-> y1 + v2, falling |-> TRUE]
  ELSE [yVel |-> v, y |-> hitY, falling |-> FALSE]

integrateMinus(y1, hitY, v, delta) ==
  IF y1 - (hitY - v * 2) > Epsilon
  THEN LET v2 == v - Max(gravity * delta, -maxYVelocity)
       IN [yVel |-> v2, y |-> y1 + v2, falling |-> TRUE]
  ELSE [yVel |-> 0, y |-> hitY, falling |-> FALSE]

integrateWithoutLookahead(y1, hitY, v, delta) ==
  IF y1 - hitY > Epsilon
  THEN LET v2 == v + Max(gravity * delta, -maxYVelocity)
       IN [yVel |-> v2, y |-> y1 + v2, falling |-> TRUE]
  ELSE [yVel |-> 0, y |-> hitY, falling |-> FALSE]

integrateSnap(y1, hitY, v, delta) ==
  IF y1 - (hitY - v * 2) > Epsilon
  THEN LET v2 == v + Max(gravity * delta, -maxYVelocity)
       IN [yVel |-> v2, y |-> hitY, falling |-> TRUE]
  ELSE [yVel |-> 0, y |-> hitY, falling |-> FALSE]

\* Vertical Integrator: the velocity and the height to apply
integrate(y1, hitY, v, delta) ==
  IF y1 - (hitY - v * 2) > Epsilon
  THEN LET v2 == v + Max(gravity * delta, -maxYVelocity)
       IN [yVel |-> v2, y |-> y1 + v2, falling |-> TRUE]
  ELSE [yVel |-> 0, y |-> hitY, falling |-> FALSE]

commitWithoutWorldToLocal(i, hitPos) ==
  add(position[i], sub(hitPos, originLocal(i)))

\* Position Committer: the increment added to el.object3D.position
commitPosition(i, hitPos) ==
  LET t1 == sub(worldToLocal(originParentWorld(i), hitPos), originLocal(i))
      t2 == IF data[i].xzOrigin # ""
            THEN <<t1[1], t1[2] + originLocal(i)[2], t1[3]>> ELSE t1
  IN add(position[i], t2)

NeverRevert(ft, didHit) == FALSE

AlwaysRevert(ft, didHit) == ~didHit

shouldRevert(ft, didHit) == ~ft /\ ~didHit

revertWithoutWorldToLocal(lp) == lp

revertPosition(lp) == worldToLocal(ParentWorld, lp)

ClearFirstTry(ft, didHit) == FALSE

\* if (didHit) firstTry = false
firstTryAfter(ft, didHit) == IF didHit THEN FALSE ELSE ft

\* The outcome of one tick: the fields it leaves and a record of what it did.
tick(i, delta) ==
  LET base == [ inst |-> i, outcome |-> "disabled", delta |-> 0,
                preLast |-> lastPosition[i], lp |-> lastPosition[i],
                nextPosition |-> Null, preYVel |-> yVel, landed |-> hasEverLanded(i),
                prePosition |-> position[i], accepted |-> 0, kinds |-> <<>>,
                falling |-> FALSE, restY |-> 0,
                after |-> IF last.inst = i THEN last.outcome ELSE "none" ]
      same == [ lastPosition |-> lastPosition[i], firstTry |-> firstTry,
                yVel |-> yVel, position |-> position[i], trace |-> base ]
      init == lastPosition[i] = Null
      ft == IF init THEN TRUE ELSE firstTry
  IN
  IF skipTick(data[i].enabled) THEN same
  ELSE IF init /\ xzOrigin[i] = "null"
  THEN \* line 176 raises a TypeError after lines 174-175 have run
       [ same EXCEPT !.lastPosition = <<0, 0, 0>>, !.firstTry = TRUE,
           !.trace = [base EXCEPT !.outcome = "threw", !.lp = <<0, 0, 0>>,
                                  !.landed = FALSE] ]
  ELSE
  LET lp == initLastPosition(lastPosition[i], samplePosition(i))
      t0 == [base EXCEPT !.lp = lp, !.landed = ~ft]
      s0 == [same EXCEPT !.lastPosition = lp, !.firstTry = ft]
  IN
  IF Len(objects[i]) = 0
  THEN [s0 EXCEPT !.trace = [t0 EXCEPT !.outcome = "noobjects"]]
  ELSE IF xzOrigin[i] = "null"
  THEN \* line 185 raises a TypeError
       [s0 EXCEPT !.trace = [t0 EXCEPT !.outcome = "threw"]]
  ELSE
  LET nextPosition == samplePosition(i)
      t1 == [t0 EXCEPT !.nextPosition = nextPosition]
  IN
  IF isStill(nextPosition, lp)
  THEN [s0 EXCEPT !.trace = [t1 EXCEPT !.outcome = "still"]]
  ELSE
  LET scan == scanPatternLoop(i, 1, nextPosition, lp)
      t2 == [t1 EXCEPT !.kinds = scan.kinds, !.accepted = scan.index]
  IN
  IF scan.didHit
  THEN LET hitY == scan.point[2] + data[i].height
           vi == integrate(nextPosition[2], hitY, yVel, delta)
           hitPos == <<scan.point[1], vi.y, scan.point[3]>>
       IN [ lastPosition |-> hitPos, firstTry |-> firstTryAfter(ft, scan.didHit),
            yVel |-> vi.yVel,
            position |-> commitPosition(i, hitPos),
            trace |-> [t2 EXCEPT !.outcome = "hit", !.falling = vi.falling,
                                 !.restY = hitY,
                                 !.delta = IF vi.falling THEN delta ELSE 0] ]
  ELSE IF shouldRevert(ft, scan.didHit)
  THEN [ s0 EXCEPT !.position = revertPosition(lp),
                   !.firstTry = firstTryAfter(ft, scan.didHit),
                   !.trace = [t2 EXCEPT !.outcome = "rollback"] ]
  ELSE [ s0 EXCEPT !.firstTry = firstTryAfter(ft, scan.didHit),
                   !.trace = [t2 EXCEPT !.outcome = "ignored"] ]

(***************************************************************************)
(* The inputs: frame deltas, movement applied to the entity by other       *)
(* components between frames, and the values set on the schema.            *)
(***************************************************************************)
Deltas == {0, 16, 600}

Moves ==
  { <<500, 0, 0>>, <<-500, 0, 0>>, <<0, 0, -500>>, <<5, 0, 0>>, <<0, 500, 0>> }

Starts ==
  { worldToLocal(ParentWorld, <<0, 0, 0>>),
    worldToLocal(ParentWorld, <<0, 5000, 0>>),
    worldToLocal(ParentWorld, <<0, -600, 0>>) }

Properties == {"enabled", "navmesh", "exclude"}

PropertyValues(prop) ==
  CASE prop = "enabled" -> BOOLEAN
    [] prop = "navmesh" -> {".ground", ".none"}
    [] prop = "exclude" -> {"", ".obstacle"}

DefaultMarkup ==
  [ enabled |-> TRUE, navmesh |-> ".ground", fall |-> DefaultFall,
    height |-> DefaultHeight, exclude |-> "", xzOrigin |-> "" ]

\* the attribute values the entity is created with
Markups ==
  { DefaultMarkup,
    [DefaultMarkup EXCEPT !.exclude = ".obstacle"],
    [DefaultMarkup EXCEPT !.fall = 0],
    [DefaultMarkup EXCEPT !.xzOrigin = "#head"],
    [DefaultMarkup EXCEPT !.xzOrigin = "#missing"],
    [DefaultMarkup EXCEPT !.navmesh = ".none"],
    [DefaultMarkup EXCEPT !.navmesh = ".none", !.exclude = ".obstacle"] }

NoResume ==
  [phase |-> "none", inst |-> 0, lastPosition |-> Null, yVel |-> 0, landed |-> FALSE]

NoTick ==
  [ inst |-> 0, outcome |-> "none", delta |-> 0, preLast |-> Null, lp |-> Null,
    nextPosition |-> Null, preYVel |-> 0, landed |-> FALSE, prePosition |-> Null,
    accepted |-> 0, kinds |-> <<>>, falling |-> FALSE, restY |-> 0,
    after |-> "none" ]

Init ==
  \E m \in Markups : \E p \in Starts :
    /\ data = [i \in Instances |-> IF i = 1 THEN m ELSE DefaultMarkup]
    /\ lastPosition = [i \in Instances |-> updateLastPosition(Null)]
    /\ excludes = [i \in Instances |-> update(data[i]).excludes]
    /\ objects = [i \in Instances |-> update(data[i]).objects]
    /\ xzOrigin = [i \in Instances |-> update(data[i]).xzOrigin]
    /\ warned = [i \in Instances |-> update(data[i]).warned]
    /\ position = [i \in Instances |-> IF i = 1 THEN p
                                       ELSE worldToLocal(ParentWorld, <<0, 0, 0>>)]
    /\ yVel = 0
    /\ firstTry = TRUE
    /\ last = NoTick
    /\ resume = NoResume
    /\ steps = 0
    /\ updates = 0
    /\ moved = FALSE

Tick(i, delta) ==
  /\ steps < MaxSteps
  /\ LET r == tick(i, delta)
     IN /\ lastPosition' = [lastPosition EXCEPT ![i] = r.lastPosition]
        /\ position' = [position EXCEPT ![i] = r.position]
        /\ yVel' = r.yVel
        /\ firstTry' = r.firstTry
        /\ last' = r.trace
  /\ resume' = IF resume.phase = "resumed" /\ resume.inst = i /\ data[i].enabled
               THEN [resume EXCEPT !.phase = "ticked"]
               ELSE IF resume.phase = "ticked" THEN NoResume ELSE resume
  /\ steps' = steps + 1
  /\ moved' = FALSE
  /\ UNCHANGED <<data, excludes, objects, xzOrigin, warned, updates>>

\* another component (wasd-controls, a teleport) moves the entity, once
\* between two frames
Move(i, d) ==
  /\ steps < MaxSteps
  /\ ~moved
  /\ moved' = TRUE
  /\ position' = [position EXCEPT ![i] = add(position[i], d)]
  /\ resume' = IF resume.phase = "ticked" THEN NoResume ELSE resume
  /\ steps' = steps + 1
  /\ last' = NoTick
  /\ UNCHANGED <<data, lastPosition, excludes, objects, xzOrigin, yVel, firstTry,
                 warned, updates>>

\* el.setAttribute('navmesh', prop, value): a changed property runs update()
SetAttribute(i, prop, value) ==
  /\ steps < MaxSteps
  /\ updates < MaxUpdates
  /\ data[i][prop] # value
  /\ data' = [data EXCEPT ![i][prop] = value]
  /\ LET u == update(data'[i])
     IN /\ lastPosition' =
             [lastPosition EXCEPT ![i] = updateLastPosition(lastPosition[i])]
        /\ excludes' = [excludes EXCEPT ![i] = u.excludes]
        /\ objects' = [objects EXCEPT ![i] = u.objects]
        /\ xzOrigin' = [xzOrigin EXCEPT ![i] = u.xzOrigin]
        /\ warned' = [warned EXCEPT ![i] = u.warned]
  /\ resume' = IF prop = "enabled" /\ value = FALSE
               THEN [ phase |-> "disabled", inst |-> i,
                      lastPosition |-> lastPosition[i], yVel |-> yVel,
                      landed |-> hasEverLanded(i) ]
               ELSE IF prop = "enabled" /\ resume.phase = "disabled" /\ resume.inst = i
               THEN [resume EXCEPT !.phase = "resumed"]
               ELSE NoResume
  /\ steps' = steps + 1
  /\ updates' = updates + 1
  /\ last' = NoTick
  /\ UNCHANGED <<position, yVel, firstTry, moved>>

Next ==
  \/ \E delta \in Deltas : Tick(1, delta)
  \/ \E d \in Moves : Move(1, d)
  \/ \E prop \in Properties : \E value \in PropertyValues(prop) :
       SetAttribute(1, prop, value)

Spec == Init /\ [][Next]_vars

(***************************************************************************)
(* Two entities of one scene carry the component.  A-Frame calls the tick  *)
(* of each component once per frame, one after the other; the tick         *)
(* function is the one closure of the component definition, so yVel and   *)
(* firstTry are the same variables for both.                               *)
(***************************************************************************)
InitTwo ==
  /\ Init
  /\ data[1] = DefaultMarkup

NextTwo ==
  \/ \E i \in Instances : \E delta \in Deltas : Tick(i, delta)
  \/ \E i \in Instances : \E d \in Moves : Move(i, d)
  \/ \E i \in Instances : \E prop \in Properties :
       \E value \in PropertyValues(prop) : SetAttribute(i, prop, value)

SpecTwo == InitTwo /\ [][NextTwo]_vars

(***************************************************************************)
(* Properties.  last describes the most recent tick: the fields it found   *)
(* (preLast, preYVel, landed, prePosition), the positions it computed (lp, *)
(* nextPosition), what each ray it cast found (kinds) and the table index  *)
(* it accepted.  The fields of the state are those the tick left.          *)
(***************************************************************************)
agentWorld(i) == localToWorld(ParentWorld, position[i])

scanned == last.outcome \in {"hit", "rollback", "ignored"}

allFailed ==
  /\ scanned
  /\ last.accepted = 0
  /\ Len(last.kinds) = 8
  /\ \A k \in 1..8 : last.kinds[k] \in {"none", "excluded", "shadowed"}

historyUnchanged ==
  /\ lastPosition[last.inst] = last.preLast
  /\ yVel = last.preYVel
  /\ hasEverLanded(last.inst) = last.landed

\* C1 (rollback): a tick of a landed instance that scans (the intended
\* position is more than 0.01 from lastPosition) and finds no valid hit on
\* any of the 8 candidates leaves the entity's world position equal to the
\* pre-tick lastPosition, which is not the intended position.
RollbackInvariant ==
  (allFailed /\ last.landed) =>
     /\ distanceToSquared(last.nextPosition, last.preLast) > 100
     /\ agentWorld(last.inst) = last.preLast
     /\ agentWorld(last.inst) # last.nextPosition

RollbackWitness ==
  /\ allFailed /\ last.landed
  /\ last.outcome = "rollback"
  /\ position[last.inst] # last.prePosition

\* C2 (exclusion): a candidate whose nearest intersection belongs to an
\* excluded entity is never the accepted one and the scan goes on to the next
\* table entry; a tick that accepts nothing leaves lastPosition, yVel and
\* hasEverLanded as they were, and the position too unless it rolls back.
ExclusionCorrectness ==
  scanned =>
     /\ \A k \in 1..Len(last.kinds) :
          last.kinds[k] = "excluded" =>
             /\ last.accepted # k
             /\ k < 8 => Len(last.kinds) > k
     /\ (last.accepted # 0 => last.kinds[last.accepted] = "valid")
     /\ (last.accepted = 0 =>
           /\ historyUnchanged
           /\ position[last.inst] =
                IF last.landed THEN worldToLocal(ParentWorld, last.preLast)
                ELSE last.prePosition)

ExclusionWitness ==
  /\ last.outcome = "hit"
  /\ last.accepted > 1
  /\ last.kinds[1] = "excluded"

\* C3 (fallback ordering): the accepted candidate is the first entry of the
\* table 0/1, 0/0.5, 30/0.4, -30/0.4, 60/0.2, -60/0.2, 80/0.06, -80/0.06
\* whose ray has a hit and no excluded hit; lastPosition is committed at that
\* candidate's x and z.
FallbackTable ==
  << <<0, 1000>>, <<0, 500>>, <<30, 400>>, <<-30, 400>>,
     <<60, 200>>, <<-60, 200>>, <<80, 60>>, <<-80, 60>> >>

kindAt(k) ==
  kindOf(castRay(last.inst, FallbackTable[k], last.nextPosition, last.lp),
         excludes[last.inst])

FallbackOrdering ==
  last.outcome = "hit" =>
     /\ last.accepted \in 1..8
     /\ kindAt(last.accepted) = "valid"
     /\ \A j \in 1..(last.accepted - 1) : kindAt(j) # "valid"
     /\ LET c == scanCandidate(FallbackTable[last.accepted], last.nextPosition, last.lp)
        IN lastPosition[last.inst][1] = c[1] /\ lastPosition[last.inst][3] = c[3]

FallbackWitness ==
  /\ last.outcome = "hit"
  /\ last.accepted = 3
  /\ kindAt(1) = "excluded" /\ kindAt(2) = "excluded"
  /\ kindAt(5) = "valid"

\* C4 (pre-landing leniency): a tick of an instance that has not landed
\* since its last update(), and that finds no valid hit, leaves the entity at
\* its intended position.
PreLandingLeniency ==
  (allFailed /\ ~last.landed) =>
     /\ last.outcome = "ignored"
     /\ position[last.inst] = last.prePosition
     /\ historyUnchanged

PreLandingWitness ==
  /\ allFailed /\ ~last.landed
  /\ last.preLast # Null
  /\ agentWorld(last.inst) # last.preLast

\* C5 (idempotent stillness): an enabled tick that samples an intended
\* position within 0.01 of the lastPosition it found casts no ray and changes
\* neither the position nor lastPosition, yVel, hasEverLanded.
IdempotentStillness ==
  ( /\ last.outcome \in {"still", "hit", "rollback", "ignored"}
    /\ last.preLast # Null
    /\ distanceToSquared(last.nextPosition, last.preLast) <= 100 ) =>
     /\ last.outcome = "still"
     /\ last.kinds = <<>> /\ last.accepted = 0
     /\ position[last.inst] = last.prePosition
     /\ historyUnchanged

StillnessWitness ==
  /\ last.outcome = "still"
  /\ last.preLast # Null
  /\ last.nextPosition # last.preLast
  /\ yVel # 0

\* C7 (disabled): a tick of an instance whose enabled is false casts no ray
\* and changes neither the position nor lastPosition, yVel, hasEverLanded.
DisabledTickSkipped ==
  (last.inst # 0 /\ ~data[last.inst].enabled) =>
     /\ last.outcome = "disabled"
     /\ last.kinds = <<>> /\ last.accepted = 0
     /\ position[last.inst] = last.prePosition
     /\ historyUnchanged

DisabledWitness ==
  /\ last.outcome = "disabled"
  /\ ~data[last.inst].enabled
  /\ last.preYVel < 0

restingKnown ==
  \/ last.outcome = "hit"
  \/ /\ last.outcome = "still"
     /\ kindOf(castRay(last.inst, <<0, 1000>>, last.nextPosition, last.nextPosition),
               excludes[last.inst]) = "valid"

restingHeight ==
  IF last.outcome = "hit" THEN last.restY
  ELSE castRay(last.inst, <<0, 1000>>, last.nextPosition, last.nextPosition)[1].point[2]
         + data[last.inst].height

withinEpsilon(a, b) == a - b <= 10 /\ b - a <= 10

GroundedResetEveryTick ==
  (restingKnown /\ withinEpsilon(last.nextPosition[2], restingHeight)) => yVel = 0

\* C8 as amended: after every tick that accepts a hit with the intended Y
\* within 0.01 of the resting height, and after every tick that resolves the
\* hit as grounded, yVel is 0 and lastPosition is at the resting height.
GroundedReset ==
  last.outcome = "hit" =>
     /\ withinEpsilon(last.nextPosition[2], last.restY) => ~last.falling
     /\ ~last.falling =>
          /\ yVel = 0
          /\ lastPosition[last.inst][2] = last.restY

GroundedResetWitness ==
  /\ last.outcome = "hit"
  /\ withinEpsilon(last.nextPosition[2], last.restY)
  /\ last.preYVel < 0
  /\ yVel = 0

\* C9 (fall smoothing): a tick that accepts a hit with
\* Y1 - (H.y - 2 * yVel) > 0.01 adds max(-delta, -0.5) to yVel and commits the
\* height Y1 + yVel' instead of H.y; for Y1 = 5.0, H.y = 0, yVel = 0 and
\* delta = 16 ms the committed height is 4.984.
FallSmoothing ==
  last.outcome = "hit" =>
     LET y1 == last.nextPosition[2]
         above == y1 - (last.restY - 2 * last.preYVel) > 10
     IN /\ last.falling = above
        /\ above =>
             /\ yVel = last.preYVel + (IF last.delta <= 500 THEN -last.delta ELSE -500)
             /\ lastPosition[last.inst][2] = y1 + yVel
             /\ agentWorld(last.inst)[2] = y1 + yVel
        /\ (y1 = 5000 /\ last.restY = 0 /\ last.preYVel = 0 /\ last.delta = 16) =>
             lastPosition[last.inst][2] = 4984

FallSmoothingWitness ==
  /\ last.outcome = "hit" /\ last.falling
  /\ last.nextPosition[2] = 5000 /\ last.restY = 0
  /\ last.preYVel = 0 /\ last.delta = 16
  /\ agentWorld(last.inst)[2] = 4984

\* C10 (velocity bound): yVel is always within [-0.5, 0], and 0 after a tick
\* that resolved the hit as grounded.
VelocityBound ==
  /\ yVel >= -500 /\ yVel <= 0
  /\ (last.outcome = "hit" /\ ~last.falling) => yVel = 0

(***************************************************************************)
(* Properties of lastPosition, of the resolved geometry and of the rays.   *)
(***************************************************************************)
\* the surfaces of the scene that lie under the point p
under(p) ==
  {s \in Scene : s.x1 <= p[1] /\ p[1] <= s.x2 /\ s.z1 <= p[3] /\ p[3] <= s.z2}

\* the position of the origin, as the entity stands now: its own world
\* position, shifted by the head's x and z when data.xzOrigin is set
originNow(i) ==
  IF data[i].xzOrigin = "" THEN agentWorld(i)
  ELSE <<agentWorld(i)[1] + 40, agentWorld(i)[2], agentWorld(i)[3]>>

\* C11 as stated (lastPosition invariant): lastPosition is null or a point
\* of a surface of this.objects raised by height.
LastPositionIsGroundHit ==
  \A i \in Instances :
     \/ lastPosition[i] = Null
     \/ \E s \in under(lastPosition[i]) :
          /\ includes(objects[i], s.el)
          /\ lastPosition[i][2] = s.y + data[i].height

\* C11 as amended: update() leaves lastPosition null; a tick that finds it
\* null stores the sampled position of the origin, which need not be on any
\* surface (or the zero vector when the origin is null and the tick raises);
\* a tick that accepts a hit stores the hit's x and z with the applied
\* height, the hit Y plus height when grounded and Y1 + yVel when falling;
\* every other tick leaves it as it was.
LastPositionProvenance ==
  last.inst # 0 =>
     LET i == last.inst
     IN IF last.outcome = "hit"
        THEN /\ \E s \in under(lastPosition[i]) :
                  /\ includes(objects[i], s.el)
                  /\ ~includes(excludes[i], s.el)
                  /\ last.restY = s.y + data[i].height
             /\ lastPosition[i][2] =
                  IF last.falling THEN last.nextPosition[2] + yVel ELSE last.restY
        ELSE IF last.outcome = "disabled" \/ last.preLast # Null
        THEN lastPosition[i] = last.preLast
        ELSE IF last.outcome = "threw"
        THEN lastPosition[i] = <<0, 0, 0>>
        ELSE lastPosition[i] = originNow(i)

LastPositionSampledWitness ==
  /\ last.inst # 0
  /\ last.outcome = "still"
  /\ last.preLast = Null
  /\ lastPosition[last.inst] = originNow(last.inst)
  /\ \A s \in under(lastPosition[last.inst]) :
        lastPosition[last.inst][2] # s.y + data[last.inst].height

\* C12 as stated (instance isolation): yVel and hasEverLanded belong to one
\* instance, so a tick of one instance leaves the velocity and the
\* hasEverLanded of every other instance as they were.
InstanceIsolation ==
  [][\A i \in Instances :
       (steps' # steps /\ last'.inst = i) =>
          \A j \in Instances \ {i} :
             /\ yVel' = yVel
             /\ hasEverLanded(j)' = hasEverLanded(j)]_vars

\* C13 as stated (empty walkable set): when data.navmesh matches no element,
\* whatever data.exclude is, this.objects is empty, and a tick casts no ray
\* and leaves the position of the entity as it found it.
EmptyWalkableNoOp ==
  \A i \in Instances :
     querySelectorAll(data[i].navmesh) = <<>> =>
        /\ objects[i] = <<>>
        /\ last.inst = i => /\ last.kinds = <<>>
                            /\ position[i] = last.prePosition

\* C14 as stated (origin reference matching nothing): when data.xzOrigin is
\* set and matches no descendant, this.xzOrigin falls back to the entity and
\* no tick raises.
OriginFallback ==
  \A i \in Instances :
     (data[i].xzOrigin # "" /\ querySelector(data[i].xzOrigin) = "null") =>
        /\ xzOrigin[i] = "el"
        /\ last.inst = i => last.outcome # "threw"

\* C15 as stated (warning on an empty match): every update() whose navmesh
\* selector matches no element logs a warning and leaves this.objects empty.
WarnsOnEmptyMatch ==
  \A i \in Instances :
     querySelectorAll(data[i].navmesh) = <<>> => warned[i] /\ objects[i] = <<>>

\* the candidate of table entry k in the most recent tick
candidateAt(k) == scanCandidate(scanPattern[k], last.nextPosition, last.lp)

\* C16 (ray reach): the ray of a candidate starts 0.5 - height above it and
\* reaches fall + 0.5 down, without limit when fall is 0.  A ray finds
\* nothing exactly when no surface of this.objects lies under the candidate
\* with a resting height at most 0.5 above it and at most fall below it, and
\* an accepted resting height is within these limits of the accepted candidate.
RayReach ==
  scanned =>
     LET i == last.inst
         near(k, s) ==
           /\ includes(objects[i], s.el)
           /\ s.y + data[i].height - candidateAt(k)[2] <= 500
           /\ data[i].fall > 0 =>
                candidateAt(k)[2] - (s.y + data[i].height) <= data[i].fall
     IN /\ \A k \in 1..Len(last.kinds) :
             last.kinds[k] = "none" <=> ~\E s \in under(candidateAt(k)) : near(k, s)
        /\ last.accepted # 0 =>
             /\ last.restY - candidateAt(last.accepted)[2] <= 500
             /\ data[i].fall > 0 =>
                  candidateAt(last.accepted)[2] - last.restY <= data[i].fall

\* a scan over the floor from too high up: every ray ends above the floor
RayReachWitness ==
  /\ allFailed
  /\ data[last.inst].fall > 0
  /\ \A k \in 1..8 :
        /\ last.kinds[k] = "none"
        /\ \E s \in under(candidateAt(k)) :
              /\ includes(objects[last.inst], s.el)
              /\ candidateAt(k)[2] - (s.y + data[last.inst].height) > data[last.inst].fall

\* a ray with no limit accepts the floor from any height
RayUnboundedWitness ==
  /\ last.outcome = "hit"
  /\ data[last.inst].fall = 0
  /\ last.nextPosition[2] - last.restY > 4000


\* a surface of this.objects more than 0.5 above the candidate is passed over
RayAboveWitness ==
  /\ scanned
  /\ \E k \in 1..Len(last.kinds) : \E s \in under(candidateAt(k)) :
        /\ includes(objects[last.inst], s.el)
        /\ s.y + data[last.inst].height - candidateAt(k)[2] > 500


\* C17 (commit): a tick that accepts a hit stores in lastPosition the x and z
\* of the accepted candidate with the applied height (the resting height
\* when grounded, Y1 + yVel when falling) and leaves hasEverLanded true;
\* when the origin is the entity itself, the world position of the entity
\* after the tick is the new lastPosition.
CommitOnHit ==
  last.outcome = "hit" =>
     LET i == last.inst
         c == candidateAt(last.accepted)
         applied == IF last.falling THEN last.nextPosition[2] + yVel ELSE last.restY
     IN /\ lastPosition[i] = <<c[1], applied, c[3]>>
        /\ hasEverLanded(i)
        /\ data[i].xzOrigin = "" => agentWorld(i) = lastPosition[i]

\* a hit that moved the entity off the position the other component gave it
CommitWitness ==
  /\ last.outcome = "hit"
  /\ data[last.inst].xzOrigin = ""
  /\ ~last.landed
  /\ hasEverLanded(last.inst)
  /\ position[last.inst] # last.prePosition
  /\ lastPosition[last.inst] # last.preLast
  /\ agentWorld(last.inst) = lastPosition[last.inst]


\* update() ran for instance i in this step
reconfigured(i) == updates' # updates /\ data'[i] # data[i]

\* C18 as stated (hasEverLanded lifecycle): update() sets lastPosition to
\* null and makes hasEverLanded false; hasEverLanded becomes true only by a
\* tick of the instance that accepts a hit; once true it stays true until
\* the next update() of the instance.
LandedLifecycle ==
  [][\A i \in Instances :
       /\ reconfigured(i) => lastPosition'[i] = Null /\ ~hasEverLanded(i)'
       /\ (~hasEverLanded(i) /\ hasEverLanded(i)') =>
             last'.inst = i /\ last'.outcome = "hit"
       /\ (hasEverLanded(i) /\ ~reconfigured(i)) => hasEverLanded(i)']_vars


\* C19 (bounded work per tick): a tick casts at most 8 rays, the k-th for
\* table entry k; it casts none after the ray it accepts, all 8 when it
\* accepts none, and none at all when it returns before the scan.
RayBudget ==
  last.inst # 0 =>
     /\ Len(last.kinds) <= 8
     /\ \A k \in 1..Len(last.kinds) :
           last.kinds[k] = kindAt(k)
     /\ last.accepted # 0 =>
           /\ Len(last.kinds) = last.accepted
           /\ \A k \in 1..Len(last.kinds) :
                 last.kinds[k] = "valid" <=> k = last.accepted
     /\ (scanned /\ last.accepted = 0) => Len(last.kinds) = 8
     /\ ~scanned => last.kinds = <<>>

\* a scan that stopped at an entry in the middle of the table
RayBudgetWitness ==
  /\ last.outcome = "hit"
  /\ last.accepted \in 3..7
  /\ Len(last.kinds) = last.accepted


\* the elements of the scene a selector matches, in document order
matches(selector) ==
  IF selector = ".ground" THEN <<"floor", "ledge">>
  ELSE IF selector = ".obstacle" THEN <<"box", "lava">>
  ELSE <<>>

\* C20 (geometry resolution): after every update(), this.objects is the
\* matches of data.navmesh followed by the matches of data.exclude, and
\* this.excludes is the matches of data.exclude, empty when data.exclude is
\* the empty string.
GeometryResolution ==
  \A i \in Instances :
     /\ objects[i] = matches(data[i].navmesh) \o matches(data[i].exclude)
     /\ excludes[i] = matches(data[i].exclude)
     /\ data[i].exclude = "" => excludes[i] = <<>>

\* update() has run again and resolved both selectors to elements
GeometryWitness ==
  /\ updates > 0
  /\ data[1].navmesh = ".ground"
  /\ data[1].exclude = ".obstacle"
  /\ objects[1] = <<"floor", "ledge", "box", "lava">>
  /\ excludes[1] = <<"box", "lava">>


(***************************************************************************)
(* Properties of failed scans, of ticks without movement, of the rays'     *)
(* whole hit lists and of the sign and size of yVel.                       *)
(***************************************************************************)
\* C21 (failed scan leaves history untouched): a tick that scans and accepts
\* no candidate found lastPosition set and leaves lastPosition, yVel and
\* hasEverLanded as it found them, whether it rolls the entity back (landed)
\* or leaves it where it was put (not landed).
FailedScanKeepsHistory ==
  (scanned /\ last.accepted = 0) =>
     /\ last.outcome \in {"rollback", "ignored"}
     /\ last.preLast # Null
     /\ lastPosition[last.inst] = last.preLast
     /\ yVel = last.preYVel
     /\ hasEverLanded(last.inst) = last.landed
     /\ last.outcome = "rollback" <=> last.landed
     /\ last.outcome = "ignored" => position[last.inst] = last.prePosition

\* a failed scan that rolled back while the entity was falling
FailedScanRollbackWitness ==
  /\ last.outcome = "rollback"
  /\ last.accepted = 0
  /\ last.preYVel < 0
  /\ yVel = last.preYVel
  /\ position[last.inst] # last.prePosition
  /\ lastPosition[last.inst] = last.preLast

\* a failed scan before any landing
FailedScanIgnoredWitness ==
  /\ last.outcome = "ignored"
  /\ last.accepted = 0
  /\ ~hasEverLanded(last.inst)
  /\ lastPosition[last.inst] = last.preLast


\* C22 (hover without external motion): when the entity is its own origin,
\* the tick that directly follows a tick that accepted a hit or rolled back,
\* with no movement of the entity in between, returns at the stillness test:
\* it casts no ray and leaves position, lastPosition and yVel as they were;
\* so does the tick that directly follows such a tick, and so on.  An
\* entity committed while falling so stays above the ground with its
\* non-zero yVel.
HoverWithoutMotion ==
  (last.inst # 0 /\ last.after \in {"hit", "rollback", "still"}
     /\ data[last.inst].xzOrigin = "") =>
        /\ last.outcome = "still"
        /\ last.kinds = <<>>
        /\ position[last.inst] = last.prePosition
        /\ lastPosition[last.inst] = last.preLast
        /\ yVel = last.preYVel

\* the entity hangs more than 0.01 above its resting height with yVel < 0
\* after the tick that followed a falling commit
HoverWitness ==
  /\ last.after = "hit"
  /\ last.outcome = "still"
  /\ data[last.inst].xzOrigin = ""
  /\ yVel < 0
  /\ restingKnown
  /\ agentWorld(last.inst)[2] - restingHeight > 10
  /\ agentWorld(last.inst) = lastPosition[last.inst]

HoverAfterRollbackWitness ==
  /\ last.after = "rollback"
  /\ last.outcome = "still"
  /\ data[last.inst].xzOrigin = ""
  /\ agentWorld(last.inst) = lastPosition[last.inst]


\* the intersections of the ray of table entry k in the most recent tick
resultsAt(k) ==
  castRay(last.inst, FallbackTable[k], last.nextPosition, last.lp)

\* some intersection of that ray, the nearest or one behind it, is on an
\* element of this.excludes
anyExcludedAt(k) ==
  \E j \in 1..Len(resultsAt(k)) :
     includes(excludes[last.inst], resultsAt(k)[j].object)

\* C23 (any-hit exclusion): a candidate is rejected whenever any
\* intersection along its ray is on an excluded element; a candidate whose
\* nearest intersection is walkable and lies above an excluded surface that
\* the ray also reaches is not accepted, and the scan goes on.
AnyHitExclusion ==
  scanned =>
     \A k \in 1..Len(last.kinds) :
        anyExcludedAt(k) =>
           /\ last.accepted # k
           /\ last.kinds[k] \in {"excluded", "shadowed"}
           /\ k < 8 => Len(last.kinds) > k

\* the straight candidate is over the floor, the lava under the floor is
\* within reach of the ray, and the scan passed the candidate over
AnyHitExclusionWitness ==
  /\ scanned
  /\ Len(resultsAt(1)) = 2
  /\ resultsAt(1)[1].object = "floor"
  /\ ~includes(excludes[last.inst], "floor")
  /\ resultsAt(1)[2].object = "lava"
  /\ includes(excludes[last.inst], "lava")
  /\ last.accepted # 1


\* C24 (velocity never positive): with frame deltas of 0 or more, yVel is at
\* most 0 in every state, and a commit of the falling branch is never above
\* the intended Y1.
VelocityNeverPositive ==
  /\ yVel <= 0
  /\ last.preYVel <= 0
  /\ (last.outcome = "hit" /\ last.falling) =>
        /\ last.delta >= 0
        /\ lastPosition[last.inst][2] <= last.nextPosition[2]
        /\ agentWorld(last.inst)[2] <= last.nextPosition[2]

\* a falling commit strictly below the intended height, with the velocity
\* grown more negative
VelocityWitness ==
  /\ last.outcome = "hit"
  /\ last.falling
  /\ last.delta > 0
  /\ last.preYVel < 0
  /\ yVel < last.preYVel
  /\ lastPosition[last.inst][2] < last.nextPosition[2]


\* C25 as stated (no overshoot below ground): a commit of the falling branch,
\* Y1 + yVel, is never below the resting height of the accepted hit.
NoOvershoot ==
  (last.outcome = "hit" /\ last.falling) =>
     lastPosition[last.inst][2] >= last.restY

\* C25 as amended: the falling branch is entered when Y1 - H + 2 * yVel is
\* more than 0.01, and yVel then grows by at most 0.5, so the commit
\* Y1 + yVel' is more than 0.01 + |yVel| - 0.5 above the resting height H:
\* it can be below H, by less than 0.49, and it is not below H when the
\* velocity before the tick was -0.49 or less or the frame delta is at most
\* 10 ms.
BoundedOvershoot ==
  (last.outcome = "hit" /\ last.falling) =>
     LET committed == lastPosition[last.inst][2]
     IN /\ committed - last.restY > 10 - last.preYVel - 500
        /\ committed - last.restY > -490
        /\ last.preYVel <= -490 => committed >= last.restY
        /\ last.delta <= 10 => committed >= last.restY

\* a falling commit that ends below the resting height
OvershootWitness ==
  /\ last.outcome = "hit"
  /\ last.falling
  /\ lastPosition[last.inst][2] < last.restY
  /\ agentWorld(last.inst)[2] < last.restY

====
